---- MODULE Spec2Model ----
(***************************************************************************)
(* Verification model of the ScrapeIQ fetch pipeline:                      *)
(*   utils/retry.py         is_retryable_error, retry_with_backoff         *)
(*   utils/rate_limiter.py  RateLimiter.wait_if_needed                     *)
(*   utils/state_manager.py StateManager                                   *)
(*   scraper/data_scraper.py, main.py  the orchestration loop              *)
(* Each component has its own specification over a shared variable list;   *)
(* the variables of the other components stay at their initial values.     *)
(***************************************************************************)
EXTENDS Integers, Sequences, FiniteSets, TLC

None == "None"

Min(a, b) == IF a <= b THEN a ELSE b
Max(a, b) == IF a >= b THEN a ELSE b

RECURSIVE Pow(_, _)
Pow(b, e) == IF e <= 0 THEN 1 ELSE b * Pow(b, e - 1)

Range(s) == {s[i] : i \in DOMAIN s}

VARIABLES
    rCfg,            \* arguments of retry_with_backoff
    rOp,             \* the wrapped operation: [prefix, tail]
    rPc,             \* "attempt", "sleep", "returned", "raised"
    attempt_number,  \* tenacity's retry_state.attempt_number
    rCalls,          \* invocations of the wrapped function so far
    rDelays,         \* the sleeps performed, in order
    rNextSleep,      \* the sleep tenacity has computed and not yet performed
    rResult,         \* OK once returned, the exception once raised
    rLog             \* sequence of <<exception, level>> logged by wrapper

retryVars == <<rCfg, rOp, rPc, attempt_number, rCalls, rDelays, rNextSleep,
               rResult, rLog>>

VARIABLES
    clock,      \* the value time.time() returns now
    calls,      \* RateLimiter.calls, the deque of timestamps
    lock,       \* RateLimiter.lock: 0 when free, else the holding thread
    tPc,        \* per thread: "idle", "waiting", "locked", "sleeping", "record"
    tWake,      \* per thread: the time its time.sleep ends
    recorded    \* every timestamp ever appended to calls, in order

rlVars == <<clock, calls, lock, tPc, tWake, recorded>>

VARIABLES
    state,      \* StateManager.state, the in-memory checkpoint
    file,       \* the state file: missing, corrupt, or a JSON document
    smOps,      \* the StateManager calls made so far, most recent first (two kept)
    smBefore    \* the in-memory state as it was before the most recent call

smVars == <<state, file, smOps, smBefore>>

VARIABLES
    run,            \* number of the current invocation of the pipeline
    pc,             \* where the run is
    server,         \* per project, how many issues the server holds
    pIdx,           \* scrape_all_projects: index in PROJECTS
    start_at,       \* scrape_project: start_at
    page,           \* scrape_project: response of the last listing call
    iIdx,           \* scrape_project: position in the page
    scraped_issues, \* scrape_project: the snapshot of the scraped keys
    scraped_count,  \* DataScraper.scraped_count
    pending,        \* the enriched issue about to be yielded
    batch,          \* main: batch
    output,         \* the items written to the output file
    emitted,        \* every item yielded by the scraper, over all runs
    listCalls,      \* every listing call made, over all runs
    commentCalls,   \* every comment call made, over all runs
    faults,         \* what went wrong so far: "health", "list", "cap", "enrich", "project"
    nFaults,        \* number of failures injected so far
    ends,           \* how each finished run ended
    startScraped,   \* per run, the scraped keys its checkpoint recorded
    startFile,      \* per run, the state file as the run found it
    healthLog,      \* every health check made, over all runs
    excs,           \* every exception caught by scrape_all_projects, over all runs
    loopExcs        \* every exception caught inside a pagination loop, over all runs

scrVars == <<run, pc, server, pIdx, start_at, page, iIdx, scraped_issues,
             scraped_count, pending, batch, output, emitted, listCalls,
             commentCalls, faults, nFaults, ends, startScraped, startFile,
             healthLog, excs, loopExcs>>

VARIABLES
    cPc,        \* _make_request under its decorator: "wait", "get", "sleep429", "get2", "backoff", "returned", "raised"
    cAttempt,   \* tenacity's attempt_number for this call
    cGets,      \* HTTP GETs sent so far
    cWaits,     \* rate_limiter.wait_if_needed() calls made so far
    cResp,      \* this attempt's response to the first GET
    cResp2,     \* this attempt's response to the GET sent after a 429
    cSlept,     \* the Retry-After sleeps performed so far
    cNextSleep, \* the backoff tenacity has computed and not yet performed
    cResult     \* what the call returned or raised

clientVars == <<cPc, cAttempt, cGets, cWaits, cResp, cResp2, cSlept, cNextSleep,
                cResult>>

VARIABLES
    mtPc,       \* per thread, the line of mark_issue_scraped it is about to run
    mtArg,      \* per thread, the issue key it was called with
    mtTmp,      \* per thread, the counter value it has read on line 107
    mtBefore    \* the in-memory state before the threads started

mtVars == <<mtPc, mtArg, mtTmp, mtBefore>>

vars == <<retryVars, rlVars, smVars, scrVars, clientVars, mtVars>>

(***************************************************************************)
(* ------------------------------ retry.py ------------------------------ *)
(***************************************************************************)

\* Bounds of the retry specification.
MaxFail == 3          \* longest scripted prefix of failures of the operation
MaxRetriesBound == 5  \* largest max_retries tried (5 is the API client's)

\* Exceptions are records: the class and, for an HTTPError, the status code
\* of the response attached to it (0: no response attached).
Exc(c, s) == [cls |-> c, status |-> s]

HttpStatuses == {400, 403, 404, 429, 500, 501, 502, 503, 504}

ExcUniverse ==
    {Exc(c, 0) : c \in {"ConnectionError", "ConnectTimeout", "ReadTimeout",
                        "ChunkedEncodingError", "TooManyRedirects",
                        "HTTPError", "ValueError"}}
    \cup {Exc("HTTPError", s) : s \in HttpStatuses}

\* requests.exceptions class hierarchy.
IsRequestException(e) == e.cls /= "ValueError"
IsHTTPError(e) == e.cls = "HTTPError"
IsConnectionError(e) == e.cls \in {"ConnectionError", "ConnectTimeout"}
IsTimeout(e) == e.cls \in {"ConnectTimeout", "ReadTimeout"}
IsChunkedEncodingError(e) == e.cls = "ChunkedEncodingError"

\* requests.Response.__bool__ is Response.ok: false for every status that
\* raise_for_status turns into an HTTPError (400..599).
ResponseTruthy(e) ==
    /\ e.status /= 0
    /\ ~(400 <= e.status /\ e.status < 600)

RetryableStatusList == {429, 500, 502, 503, 504}

\* A plausible slip: the status is read whenever a response is attached.
StatusCodeOf_attached(e) == IF e.status /= 0 THEN e.status ELSE 0

\* status_code = exception.response.status_code if exception.response else None
StatusCodeOf(e) == IF ResponseTruthy(e) THEN e.status ELSE 0

is_retryable_error(e) ==
    IF IsRequestException(e)
    THEN IF IsHTTPError(e) /\ StatusCodeOf(e) \in RetryableStatusList
         THEN TRUE
         ELSE IsConnectionError(e) \/ IsTimeout(e) \/ IsChunkedEncodingError(e)
    ELSE FALSE

\* tenacity.retry_if_exception_type((RequestException,)), mutated to retry
\* only what the classifier accepts.
RetryPredicate_classified(e) == is_retryable_error(e)

\* tenacity.retry_if_exception_type((RequestException,))
RetryPredicate(e) == IsRequestException(e)

\* stop_after_attempt, mutated to be off by one.
StopAfterAttempt_early(n, maxAttempt) == n + 1 >= maxAttempt

\* tenacity.stop_after_attempt(max_attempt_number)
StopAfterAttempt(n, maxAttempt) == n >= maxAttempt

\* wait_exponential as it was before tenacity 8: exponent attempt_number.
wait_exponential_old(n, multiplier, maxw, base) ==
    Max(0, Min(multiplier * Pow(base, n), maxw))

\* tenacity.wait_exponential(multiplier, max, exp_base), min = 0, called with
\* the number n (from 1) of the attempt that has just failed.
wait_exponential(n, multiplier, maxw, base) ==
    Max(0, Min(multiplier * Pow(base, n - 1), maxw))

OK == Exc("ok", 0)

\* The errors the scripted operation may raise.
ScriptErrors == {Exc("ConnectionError", 0), Exc("ReadTimeout", 0),
                 Exc("HTTPError", 503), Exc("HTTPError", 429),
                 Exc("HTTPError", 403), Exc("ValueError", 0)}

\* Decorator arguments tried: (max_retries, initial_delay, max_delay, base).
\* The first is the API client's, jira_client.py line 52.
RetryConfigs ==
    {[max_retries |-> m, initial_delay |-> 1, max_delay |-> 60, exponential_base |-> 2]
        : m \in 0..MaxRetriesBound}
    \cup {[max_retries |-> 3, initial_delay |-> 1, max_delay |-> 3, exponential_base |-> 2],
          [max_retries |-> 3, initial_delay |-> 2, max_delay |-> 60, exponential_base |-> 3]}

ClientRetryConfig ==
    [max_retries |-> 5, initial_delay |-> 1, max_delay |-> 60, exponential_base |-> 2]

\* Outcome of the n-th invocation of the scripted operation.
OpOutcome(op, n) == IF n <= Len(op.prefix) THEN op.prefix[n] ELSE op.tail

RECURSIVE SeqsUpTo(_, _)
SeqsUpTo(S, n) ==
    IF n = 0 THEN {<<>>}
    ELSE LET shorter == SeqsUpTo(S, n - 1)
         IN shorter \cup {Append(s, x) : s \in {t \in shorter : Len(t) = n - 1}, x \in S}

\* Scripts: up to MaxFail failures of one or two kinds, then a tail outcome
\* repeated for ever.
OpScripts ==
    {[prefix |-> p, tail |-> t] :
        p \in {q \in SeqsUpTo(ScriptErrors, MaxFail) :
                  Cardinality(Range(q)) <= 2},
        t \in {OK} \cup ScriptErrors}

RetryIdle ==
    /\ rCfg = ClientRetryConfig
    /\ rOp = [prefix |-> <<>>, tail |-> OK]
    /\ rPc = "off"
    /\ attempt_number = 1
    /\ rCalls = 0
    /\ rDelays = <<>>
    /\ rNextSleep = 0
    /\ rResult = None
    /\ rLog = <<>>

RetryInit ==
    /\ rCfg \in RetryConfigs
    /\ rOp \in OpScripts
    /\ rPc = "attempt"
    /\ attempt_number = 1
    /\ rCalls = 0
    /\ rDelays = <<>>
    /\ rNextSleep = 0
    /\ rResult = None
    /\ rLog = <<>>

\* The level wrapper logs at for a caught RequestException (retry.py 69-79).
WrapperLogLevel(e) == IF is_retryable_error(e) THEN "warning" ELSE "error"

\* One pass of tenacity's loop: call wrapper, which calls func; on an
\* exception decide between re-raising and sleeping.
wrapper ==
    /\ rPc = "attempt"
    /\ LET o == OpOutcome(rOp, rCalls + 1) IN
       /\ rCalls' = rCalls + 1
       /\ IF o = OK
          THEN /\ rPc' = "returned"
               /\ rResult' = OK
               /\ UNCHANGED <<rLog, rNextSleep>>
          ELSE /\ rLog' = IF IsRequestException(o)
                          THEN Append(rLog, <<o, WrapperLogLevel(o)>>)
                          ELSE rLog
               /\ IF ~RetryPredicate(o)
                  THEN /\ rPc' = "raised"
                       /\ rResult' = o
                       /\ UNCHANGED rNextSleep
                  ELSE IF StopAfterAttempt(attempt_number, rCfg.max_retries + 1)
                       THEN /\ rPc' = "raised"      \* reraise=True
                            /\ rResult' = o
                            /\ UNCHANGED rNextSleep
                       ELSE /\ rPc' = "sleep"
                            /\ rNextSleep' = wait_exponential(attempt_number,
                                                 rCfg.initial_delay, rCfg.max_delay,
                                                 rCfg.exponential_base)
                            /\ UNCHANGED rResult
    /\ UNCHANGED <<rCfg, rOp, attempt_number, rDelays>>
    /\ UNCHANGED <<rlVars, smVars, scrVars, clientVars, mtVars>>

backoff_sleep ==
    /\ rPc = "sleep"
    /\ rDelays' = Append(rDelays, rNextSleep)
    /\ attempt_number' = attempt_number + 1
    /\ rPc' = "attempt"
    /\ UNCHANGED <<rCfg, rOp, rCalls, rNextSleep, rResult, rLog>>
    /\ UNCHANGED <<rlVars, smVars, scrVars, clientVars, mtVars>>

(***************************************************************************)
(* Claims about retry.py                                                   *)
(***************************************************************************)

\* The classification the specification gives: Retryable is a connection
\* error, a timeout, a truncated response, HTTP 429 or HTTP 5xx.
ClaimedRetryable(e) ==
    \/ IsConnectionError(e) \/ IsTimeout(e) \/ IsChunkedEncodingError(e)
    \/ IsHTTPError(e) /\ (e.status = 429 \/ (500 <= e.status /\ e.status < 600))

ClaimedFatal(e) == e /= OK /\ ~ClaimedRetryable(e)

RetryTerminated == rPc \in {"returned", "raised"}

\* C4: an operation whose failure is fatal (not retryable, for example
\* HTTP 403) is invoked exactly once and that error reaches the caller.
C4_FatalAttemptedOnce ==
    (rCalls >= 1 /\ ClaimedFatal(OpOutcome(rOp, 1)))
        => /\ rCalls = 1
           /\ rPc = "raised"
           /\ rResult = OpOutcome(rOp, 1)

\* The operation fails with retryable errors exactly k times, then succeeds.
FailsThenSucceeds(k) ==
    /\ Len(rOp.prefix) = k
    /\ \A i \in 1..k : ClaimedRetryable(rOp.prefix[i])
    /\ rOp.tail = OK

\* C5: an operation failing with a retryable error exactly k < max_retries
\* times and then succeeding is never given up on, and returns its result
\* after exactly k + 1 invocations.
C5_AttemptCount ==
    \A k \in 0..MaxFail :
        (rPc /= "off" /\ FailsThenSucceeds(k) /\ k < rCfg.max_retries)
            => /\ rPc /= "raised"
               /\ rCalls <= k + 1
               /\ (rPc = "returned" => rCalls = k + 1 /\ rResult = OK)

C5_Witness ==
    /\ rPc = "returned"
    /\ FailsThenSucceeds(3)
    /\ rCfg = ClientRetryConfig
    /\ Exc("HTTPError", 503) \in Range(rOp.prefix)
    /\ rCalls = 4

\* C6 as stated: the delay before attempt i (attempts counted from 0, the
\* first invocation being attempt 0) is min(max_delay, initial_delay * base^i).
C6_DelayAsStated ==
    \A i \in DOMAIN rDelays :
        rDelays[i] = Min(rCfg.max_delay,
                         rCfg.initial_delay * Pow(rCfg.exponential_base, i))

\* C6 amended: the delay before attempt i (i >= 1, the first invocation being
\* attempt 0) is min(max_delay, initial_delay * base^(i-1)); in the API client
\* the delays are 1, 2, 4, 8, 16 seconds.
C6_DelayAmended ==
    /\ \A i \in DOMAIN rDelays :
          rDelays[i] = Min(rCfg.max_delay,
                           rCfg.initial_delay * Pow(rCfg.exponential_base, i - 1))
    /\ rCfg = ClientRetryConfig
          => /\ Len(rDelays) <= 5
             /\ \A i \in DOMAIN rDelays : rDelays[i] = <<1, 2, 4, 8, 16>>[i]

C6_Witness ==
    /\ Len(rDelays) = 3
    /\ rDelays[3] = rCfg.max_delay
    /\ rCfg.initial_delay * Pow(rCfg.exponential_base, 2) > rCfg.max_delay

\* The operation fails with a retryable error on every invocation.
AlwaysFailsRetryable ==
    /\ \A i \in DOMAIN rOp.prefix : ClaimedRetryable(rOp.prefix[i])
    /\ ClaimedRetryable(rOp.tail)

\* C7: an operation failing with a retryable error on every attempt is
\* invoked exactly max_retries + 1 times, and then the error of the last
\* attempt is raised.
C7_Exhaustion ==
    (rPc /= "off" /\ AlwaysFailsRetryable)
        => /\ rPc /= "returned"
           /\ rCalls <= rCfg.max_retries + 1
           /\ (rPc = "raised"
                 => /\ rCalls = rCfg.max_retries + 1
                    /\ rResult = OpOutcome(rOp, rCfg.max_retries + 1))

C7_Witness ==
    /\ rPc = "raised"
    /\ AlwaysFailsRetryable
    /\ rCfg = ClientRetryConfig
    /\ rCalls = 6
    /\ rOp.prefix /= <<>>
    /\ rResult = rOp.tail
    /\ rOp.tail \notin Range(rOp.prefix)

\* C8: is_retryable_error is true for connection errors, timeouts, truncated
\* responses, HTTP 429 and every HTTP 5xx, and false for anything else.
C8_Classification ==
    \A n \in 1..rCalls :
        LET e == OpOutcome(rOp, n)
        IN  e /= OK => (is_retryable_error(e) <=> ClaimedRetryable(e))

(***************************************************************************)
(* --------------------------- rate_limiter.py --------------------------- *)
(***************************************************************************)

\* Bounds of the rate limiter specification.  Time is counted in ticks of
\* the clock time.time() reads; the period of 1.0 s is PeriodTicks ticks.
NumThreads == 2
MaxClock == 5
MaxRecorded == 5
PeriodTicks == 2

\* config.REQUESTS_PER_SECOND, the max_calls of the client's limiter.
REQUESTS_PER_SECOND == 2

Threads == 1..NumThreads

RECURSIVE PurgeOld(_, _)
\* A purge that also drops the entry that is exactly one period old.
PurgeOld_inclusive(q, now) ==
    IF q /= <<>> /\ q[1] <= now - PeriodTicks
    THEN PurgeOld(Tail(q), now)
    ELSE q

\* while self.calls and self.calls[0] < now - self.period: popleft()
PurgeOld(q, now) ==
    IF q /= <<>> /\ q[1] < now - PeriodTicks
    THEN PurgeOld(Tail(q), now)
    ELSE q

RLIdle ==
    /\ clock = 0
    /\ calls = <<>>
    /\ lock = 0
    /\ tPc = [t \in Threads |-> "off"]
    /\ tWake = [t \in Threads |-> 0]
    /\ recorded = <<>>

RLInit ==
    /\ clock = 0
    /\ calls = <<>>
    /\ lock = 0
    /\ tPc = [t \in Threads |-> "idle"]
    /\ tWake = [t \in Threads |-> 0]
    /\ recorded = <<>>

\* Time passes; it is followed up to MaxClock, and further while a thread
\* is still asleep.
Tick ==
    /\ \/ clock < MaxClock
       \/ \E t \in Threads : tPc[t] = "sleeping" /\ tWake[t] > clock
    /\ \E t \in Threads : tPc[t] /= "off"
    /\ clock' = clock + 1
    /\ UNCHANGED <<calls, lock, tPc, tWake, recorded>>
    /\ UNCHANGED <<retryVars, smVars, scrVars, clientVars, mtVars>>

\* The calls of wait_if_needed that have not returned yet.
InCall == {t \in Threads : tPc[t] \in {"waiting", "locked", "sleeping", "record"}}

\* A thread calls wait_if_needed and reaches "with self.lock".
rl_call(t) ==
    /\ tPc[t] = "idle"
    /\ Len(recorded) + Cardinality(InCall) < MaxRecorded
    /\ tPc' = [tPc EXCEPT ![t] = "waiting"]
    /\ UNCHANGED <<clock, calls, lock, tWake, recorded>>
    /\ UNCHANGED <<retryVars, smVars, scrVars, clientVars, mtVars>>

\* A rl_record that returns without leaving the "with" block.
rl_record_keepsLock(t) ==
    /\ tPc[t] = "record"
    /\ calls' = Append(calls, clock)
    /\ recorded' = Append(recorded, clock)
    /\ tPc' = [tPc EXCEPT ![t] = "idle"]
    /\ UNCHANGED <<clock, lock, tWake>>
    /\ UNCHANGED <<retryVars, smVars, scrVars, clientVars, mtVars>>

\* "with self.lock": the lock is free and the thread takes it.
rl_acquire(t) ==
    /\ tPc[t] = "waiting"
    /\ lock = 0
    /\ lock' = t
    /\ tPc' = [tPc EXCEPT ![t] = "locked"]
    /\ UNCHANGED <<clock, calls, tWake, recorded>>
    /\ UNCHANGED <<retryVars, smVars, scrVars, clientVars, mtVars>>

\* Lines 28-38: read the clock, purge, decide whether to sleep.
rl_check(t) ==
    /\ tPc[t] = "locked"
    /\ LET now == clock
           q == PurgeOld(calls, now)
       IN /\ calls' = q
          /\ IF Len(q) >= REQUESTS_PER_SECOND
             THEN LET sleep_time == q[1] + PeriodTicks - now
                  IN IF sleep_time > 0
                     THEN /\ tPc' = [tPc EXCEPT ![t] = "sleeping"]
                          /\ tWake' = [tWake EXCEPT ![t] = now + sleep_time]
                     ELSE /\ tPc' = [tPc EXCEPT ![t] = "record"]
                          /\ UNCHANGED tWake
             ELSE /\ tPc' = [tPc EXCEPT ![t] = "record"]
                  /\ UNCHANGED tWake
    /\ UNCHANGED <<clock, lock, recorded>>
    /\ UNCHANGED <<retryVars, smVars, scrVars, clientVars, mtVars>>

\* Lines 38-42: time.sleep returns no earlier than asked; purge again.
rl_wake(t) ==
    /\ tPc[t] = "sleeping"
    /\ clock >= tWake[t]
    /\ calls' = PurgeOld(calls, clock)
    /\ tPc' = [tPc EXCEPT ![t] = "record"]
    /\ UNCHANGED <<clock, lock, tWake, recorded>>
    /\ UNCHANGED <<retryVars, smVars, scrVars, clientVars, mtVars>>

\* Line 45: self.calls.append(time.time()), then the lock is released.
rl_record(t) ==
    /\ tPc[t] = "record"
    /\ calls' = Append(calls, clock)
    /\ recorded' = Append(recorded, clock)
    /\ lock' = 0
    /\ tPc' = [tPc EXCEPT ![t] = "idle"]
    /\ UNCHANGED <<clock, tWake>>
    /\ UNCHANGED <<retryVars, smVars, scrVars, clientVars, mtVars>>

RLNext ==
    \/ Tick
    \/ \E t \in Threads : rl_call(t)
    \/ \E t \in Threads : rl_acquire(t)
    \/ \E t \in Threads : rl_check(t)
    \/ \E t \in Threads : rl_wake(t)
    \/ \E t \in Threads : rl_record(t)

(***************************************************************************)
(* Claims about rate_limiter.py                                            *)
(***************************************************************************)

\* The recorded timestamps inside the window [t, t + period).
InWindow(t) ==
    {i \in DOMAIN recorded : t <= recorded[i] /\ recorded[i] < t + PeriodTicks}

\* C3: whatever the callers do, every window of length period holds at most
\* max_calls recorded timestamps, also when a call arrives exactly one
\* period after the oldest recorded call.
C3_WindowBound ==
    \A t \in 0..MaxClock : Cardinality(InWindow(t)) <= REQUESTS_PER_SECOND


\* Scheduling: the clock advances, a thread that can run its next statement
\* eventually runs it, and a thread blocked on a lock that stays free gets
\* it.  Nothing makes a caller call.
RLFairness ==
    /\ WF_vars(Tick)
    /\ \A t \in Threads : /\ WF_vars(rl_acquire(t))
                          /\ WF_vars(rl_check(t))
                          /\ WF_vars(rl_wake(t))
                          /\ WF_vars(rl_record(t))

\* C28: every call of wait_if_needed returns, whether the caller has to wait
\* for the lock, for the oldest recorded call to leave the window, or both.
C28_EveryCallReturns ==
    \A t \in Threads : (t \in InCall) ~> (tPc[t] = "idle")

\* One caller is asleep inside the lock, waiting for the window to move on,
\* and another caller is blocked on the lock.
C28_Witness ==
    \E t, u \in Threads :
        /\ tPc[t] = "sleeping" /\ tWake[t] > clock
        /\ lock = t
        /\ tPc[u] = "waiting"

(***************************************************************************)
(* --------------------------- state_manager.py -------------------------- *)
(***************************************************************************)

\* Bounds: issue keys per project, written 1..MaxIssues (key n of project p
\* stands for "p-n"); the StateManager specification uses 1..MaxStoreKeys.
MaxIssues == 2
MaxStoreKeys == 2

\* config.PROJECTS, shortened to two project keys.
PROJECTS == <<"A", "B">>
ProjectKeys == Range(PROJECTS)
IssueKeys == 1..MaxIssues
StoreKeys == 1..MaxStoreKeys

\* A Python dict with no entries.
EmptyDict == [x \in {} |-> <<>>]

\* StateManager._empty_state (current_issue_index and last_updated are never
\* read and are left out).
EmptyState ==
    [projects |-> EmptyDict,
     completed_projects |-> {},
     current_project |-> None,
     total_issues_scraped |-> 0]

\* A state file that does not exist, one holding text that is not JSON (a
\* truncated document), one holding bytes that are not UTF-8 text, and one
\* holding the JSON document null.
NoFile == [kind |-> "missing"]
CorruptFile == [kind |-> "corrupt"]
UndecodableFile == [kind |-> "undecodable"]
NullFile == [kind |-> "null"]
DamagedFiles == {CorruptFile, UndecodableFile, NullFile}

\* list(a_set): the elements in some order.
ListsOf(S) == {q \in [1..Cardinality(S) -> S] : Range(q) = S}

\* A save_state that writes the completed projects as an empty list.
JsonDoc_dropsCompleted(st, order) ==
    [kind |-> "json",
     projects |-> st.projects,
     completed_projects |-> <<>>,
     current_project |-> st.current_project,
     total_issues_scraped |-> st.total_issues_scraped]

\* The document save_state writes, with the set of completed projects
\* listed in the order `order`.
JsonDoc(st, order) ==
    [kind |-> "json",
     projects |-> st.projects,
     completed_projects |-> order,
     current_project |-> st.current_project,
     total_issues_scraped |-> st.total_issues_scraped]

\* StateManager._load_state lines 29-40: what the try block raises and the
\* except clause (json.JSONDecodeError, IOError) does not catch.  Reading
\* bytes that are not UTF-8 raises UnicodeDecodeError in json.load (line 31);
\* for the document null, `"completed_projects" in state` raises TypeError
\* (line 33).
load_raises(f) == f.kind \in {"undecodable", "null"}

\* StateManager._load_state when it returns: a missing file or text that is
\* not JSON gives the empty state; the completed_projects list becomes a set
\* again.
load_state(f) ==
    IF f.kind = "json"
    THEN [projects |-> f.projects,
          completed_projects |-> Range(f.completed_projects),
          current_project |-> f.current_project,
          total_issues_scraped |-> f.total_issues_scraped]
    ELSE EmptyState

\* The completion test always answering no.
is_project_completed_never(st, p) == FALSE

\* StateManager.is_project_completed
is_project_completed(st, p) == p \in st.completed_projects

\* StateManager.get_scraped_issues
get_scraped_issues(st, p) ==
    IF p \notin DOMAIN st.projects THEN {} ELSE Range(st.projects[p])

\* dict assignment d[k] = v
DictPut(d, k, v) == [x \in (DOMAIN d) \cup {k} |-> IF x = k THEN v ELSE d[x]]

\* The in-memory effect of mark_issue_scraped without the membership test.
mark_issue_scraped_mem_nocheck(st, p, k) ==
    LET projs == IF p \in DOMAIN st.projects THEN st.projects
                 ELSE DictPut(st.projects, p, <<>>)
    IN [st EXCEPT !.projects = DictPut(projs, p, Append(projs[p], k)),
                  !.total_issues_scraped = st.total_issues_scraped + 1]

\* A mark_issue_scraped that counts the call, new key or not.
mark_issue_scraped_mem_counts(st, p, k) ==
    LET projs == IF p \in DOMAIN st.projects THEN st.projects
                 ELSE DictPut(st.projects, p, <<>>)
    IN IF k \notin Range(projs[p])
       THEN [st EXCEPT !.projects = DictPut(projs, p, Append(projs[p], k)),
                       !.total_issues_scraped = st.total_issues_scraped + 1]
       ELSE [st EXCEPT !.projects = projs,
                       !.total_issues_scraped = st.total_issues_scraped + 1]

\* The in-memory effect of StateManager.mark_issue_scraped.
mark_issue_scraped_mem(st, p, k) ==
    LET projs == IF p \in DOMAIN st.projects THEN st.projects
                 ELSE DictPut(st.projects, p, <<>>)
    IN IF k \notin Range(projs[p])
       THEN [st EXCEPT !.projects = DictPut(projs, p, Append(projs[p], k)),
                       !.total_issues_scraped = st.total_issues_scraped + 1]
       ELSE [st EXCEPT !.projects = projs]

\* Whether mark_issue_scraped reaches its save_state call.
mark_issue_scraped_saves(st, p, k) == k \notin get_scraped_issues(st, p)

\* A mark_project_completed that assigns the set instead of adding to it.
mark_project_completed_mem_replaces(st, p) ==
    [st EXCEPT !.completed_projects = {p}]

\* The in-memory effect of StateManager.mark_project_completed.
mark_project_completed_mem(st, p) ==
    [st EXCEPT !.completed_projects = st.completed_projects \cup {p}]

\* The in-memory effect of StateManager.set_current_project.
set_current_project_mem(st, p) == [st EXCEPT !.current_project = p]

\* The documents save_state may leave in the file for the state st.
SavedFiles(st) == {JsonDoc(st, order) : order \in ListsOf(st.completed_projects)}

SMIdle ==
    /\ state = EmptyState
    /\ file = NoFile
    /\ smOps = <<>>
    /\ smBefore = EmptyState

\* StateManager(state_file) on a first run: no file yet.
SMInit ==
    /\ state = load_state(NoFile)
    /\ file = NoFile
    /\ smOps = <<[op |-> "init", p |-> None, k |-> 0]>>
    /\ smBefore = EmptyState

Called(op, p, k) ==
    /\ smOps' = <<[op |-> op, p |-> p, k |-> k]>> \o SubSeq(smOps, 1, Min(1, Len(smOps)))
    /\ smBefore' = state

\* There is a StateManager: the most recent construction returned.
SMRunning == smOps /= <<>> /\ smOps[1].op /= "reload_raised"

sm_mark_issue_scraped(p, k) ==
    /\ SMRunning
    /\ state' = mark_issue_scraped_mem(state, p, k)
    /\ IF mark_issue_scraped_saves(state, p, k)
       THEN file' \in SavedFiles(state')
       ELSE file' = file
    /\ Called("mark_issue_scraped", p, k)
    /\ UNCHANGED <<retryVars, rlVars, scrVars, clientVars, mtVars>>

sm_mark_project_completed(p) ==
    /\ SMRunning
    /\ state' = mark_project_completed_mem(state, p)
    /\ file' \in SavedFiles(state')
    /\ Called("mark_project_completed", p, 0)
    /\ UNCHANGED <<retryVars, rlVars, scrVars, clientVars, mtVars>>

sm_set_current_project(p) ==
    /\ SMRunning
    /\ state' = set_current_project_mem(state, p)
    /\ file' \in SavedFiles(state')
    /\ Called("set_current_project", p, 0)
    /\ UNCHANGED <<retryVars, rlVars, scrVars, clientVars, mtVars>>

sm_save_state ==
    /\ SMRunning
    /\ file' \in SavedFiles(state)
    /\ state' = state
    /\ Called("save_state", None, 0)
    /\ UNCHANGED <<retryVars, rlVars, scrVars, clientVars, mtVars>>

\* StateManager.reset: empty state, file deleted.
sm_reset ==
    /\ SMRunning
    /\ state' = EmptyState
    /\ file' = NoFile
    /\ Called("reset", None, 0)
    /\ UNCHANGED <<retryVars, rlVars, scrVars, clientVars, mtVars>>

\* A new StateManager is constructed (main line 33) from the state file as
\* it finds it: as the last run left it, or damaged since.  When _load_state
\* raises there is no StateManager and main ends with the exception.
sm_reload(found) ==
    /\ smOps /= <<>>
    /\ file' = found
    /\ IF load_raises(found)
       THEN state' = state /\ Called("reload_raised", None, 0)
       ELSE /\ state' = load_state(found)
            /\ Called(IF found = file THEN "reload" ELSE "reload_damaged", None, 0)
    /\ UNCHANGED <<retryVars, rlVars, scrVars, clientVars, mtVars>>

SMNext ==
    \/ \E p \in ProjectKeys, k \in StoreKeys : sm_mark_issue_scraped(p, k)
    \/ \E p \in ProjectKeys : sm_mark_project_completed(p)
    \/ \E p \in ProjectKeys : sm_set_current_project(p)
    \/ sm_save_state
    \/ sm_reset
    \/ \E found \in {file} \cup DamagedFiles : sm_reload(found)

(***************************************************************************)
(* Claims about state_manager.py                                           *)
(***************************************************************************)

\* Number of positions of the list q holding x.
Occurrences(q, x) == Cardinality({i \in DOMAIN q : q[i] = x})

\* The two most recent calls are mark_issue_scraped(p, k) with the same p, k.
MarkedTwice(p, k) ==
    /\ Len(smOps) = 2
    /\ smOps[1] = [op |-> "mark_issue_scraped", p |-> p, k |-> k]
    /\ smOps[2] = smOps[1]

\* C9: a second mark_issue_scraped(p, k) leaves the scraped-key list of p
\* as the first call left it, with k in it exactly once, and leaves
\* total_issues_scraped as the first call left it.
C9_MarkIdempotent ==
    \A p \in ProjectKeys, k \in StoreKeys :
        MarkedTwice(p, k)
            => /\ p \in DOMAIN state.projects
               /\ p \in DOMAIN smBefore.projects
               /\ state.projects[p] = smBefore.projects[p]
               /\ Occurrences(state.projects[p], k) = 1
               /\ state.total_issues_scraped = smBefore.total_issues_scraped
               /\ state = smBefore

C9_Witness ==
    /\ MarkedTwice("A", 2)
    /\ Len(state.projects["A"]) = 2
    /\ state.total_issues_scraped = 2

\* The most recent call built a new StateManager right after
\* mark_project_completed(p) returned.
ReloadedAfterCompleted(p) ==
    /\ Len(smOps) = 2
    /\ smOps[1].op = "reload"
    /\ smOps[2] = [op |-> "mark_project_completed", p |-> p, k |-> 0]

RECURSIVE DistinctKeys(_, _)
DistinctKeys(st, P) ==
    IF P = {} THEN 0
    ELSE LET p == CHOOSE x \in P : TRUE
         IN Cardinality(Range(st.projects[p])) + DistinctKeys(st, P \ {p})

\* C33: whatever calls were made on the StateManager since the empty state,
\* total_issues_scraped is the number of distinct keys in the scraped
\* collections of all projects, in memory and in a saved state file.
C33_CounterIsKeyCount ==
    /\ state.total_issues_scraped = DistinctKeys(state, DOMAIN state.projects)
    /\ file.kind = "json" =>
          file.total_issues_scraped = DistinctKeys(file, DOMAIN file.projects)

\* Keys of two projects were marked, one of them twice.
C33_Witness ==
    /\ MarkedTwice("B", 1)
    /\ get_scraped_issues(state, "A") = {1, 2}
    /\ get_scraped_issues(state, "B") = {1}
    /\ state.total_issues_scraped = 3

\* Nothing recorded in st is missing in nx.
Keeps(st, nx) ==
    /\ st.completed_projects \subseteq nx.completed_projects
    /\ \A p \in DOMAIN st.projects :
          /\ p \in DOMAIN nx.projects
          /\ Range(st.projects[p]) \subseteq Range(nx.projects[p])
    /\ st.total_issues_scraped <= nx.total_issues_scraped

ISSUES_PER_PAGE == 1
MAX_ISSUES_PER_PROJECT == 3
BatchSize == 2
MaxRuns == 2
MaxFaults == 1   \* failures injected (server, disk, process killed), over all runs

\* The keys the server holds, as <<project, n>>.
ServerKeys == {pk \in ProjectKeys \X IssueKeys : pk[2] <= server[pk[1]]}

\* The server's answer to "project=p ORDER BY created ASC" windowed by
\* startAt / maxResults.
ServerPage(p, startAt, maxResults) ==
    [issues |-> [i \in 1..Max(0, Min(maxResults, server[p] - startAt)) |-> startAt + i],
     total |-> server[p],
     startAt |-> startAt]

\* JiraClient.get_project_issues when _make_request raised (line 140) or
\* returned {} for a 404 (line 95): no issues, total read as 0.
FailedPage(startAt) == [issues |-> <<>>, total |-> 0, startAt |-> startAt]

\* Outcomes of one listing call and of one comment call.
\* "noStartAt": the server answers the page and its response carries no
\* "startAt" member.
ListOutcomes == {"ok", "failed", "noStartAt"}
CommentOutcomes == {"ok", "notfound", "failed"}

\* What can happen to one issue in _enrich_issue: one of the outcomes of its
\* comment call, or the call answers and the issue (or a comment) is not
\* shaped as the dictionary accesses of lines 153-188 expect ("fields": null,
\* a comment that is not an object), which raises inside the try block.
IssueOutcomes == CommentOutcomes \cup {"malformed"}

\* The outcome of the comment call of an issue.
CommentFetch(outcome) == IF outcome = "malformed" THEN "ok" ELSE outcome

\* JiraClient.get_project_issues
get_project_issues(p, startAt, maxResults, outcome) ==
    IF outcome = "ok"
    THEN ServerPage(p, startAt, maxResults)
    ELSE IF outcome = "noStartAt"
         THEN [ServerPage(p, startAt, maxResults) EXCEPT !.startAt = 0]
         ELSE FailedPage(startAt)

\* JiraClient.get_issue_comments: the comments, or [] on 404 and on any
\* exception.
get_issue_comments(outcome) == IF outcome = "ok" THEN "comments" ELSE "empty"

\* No enriched issue: what _enrich_issue returns as None, and the value of
\* pending when nothing is about to be yielded.
NoItem == [p |-> None, k |-> 0, comments |-> "empty", fetch |-> "ok"]

\* _enrich_issue giving up on an issue without comments.
enrich_issue_dropsEmpty(p, k, outcome) ==
    IF outcome = "malformed" \/ get_issue_comments(CommentFetch(outcome)) = "empty"
    THEN NoItem
    ELSE [p |-> p, k |-> k, comments |-> "comments", fetch |-> outcome]

\* DataScraper._enrich_issue: the enriched issue with the comments fetched,
\* or None (NoItem) when anything raised (lines 193-195).
enrich_issue(p, k, outcome) ==
    IF outcome = "malformed"
    THEN NoItem
    ELSE [p |-> p, k |-> k,
          comments |-> get_issue_comments(CommentFetch(outcome)),
          fetch |-> CommentFetch(outcome)]

\* start_at as a resumed run would set it had the offset been persisted.
InitialStartAt_resumed(scraped) == Cardinality(scraped)

\* scrape_project line 49: start_at = 0
InitialStartAt(scraped) == 0

\* The skip test left out.
AlreadyScraped_never(k, scraped) == FALSE

\* scrape_project line 85: if issue_key in scraped_issues
AlreadyScraped(k, scraped) == k \in scraped

\* scrape_project line 104: start_at = response.get("startAt", 0) + len(issues);
\* resp.startAt is what response.get("startAt", 0) gives.
NextStartAt(resp) == resp.startAt + Len(resp.issues)

\* get_project_issues, get_issue_comments and _enrich_issue catch every
\* Exception themselves, so a failed request raises nothing in the pagination
\* loop; what raises there is a response that is not shaped as the loop
\* expects (see loop_exception).  save_state is taken to succeed when it runs
\* to its end: the IOError it swallows is not modelled.
RunningPcs == {"health", "project", "list", "issue", "yield", "complete", "finish"}

NoPage == FailedPage(0)

ScrIdle ==
    /\ run = 0
    /\ pc = "off"
    /\ server = [p \in ProjectKeys |-> 0]
    /\ pIdx = 0
    /\ start_at = 0
    /\ page = NoPage
    /\ iIdx = 0
    /\ scraped_issues = {}
    /\ scraped_count = 0
    /\ pending = NoItem
    /\ batch = <<>>
    /\ output = <<>>
    /\ emitted = <<>>
    /\ listCalls = <<>>
    /\ commentCalls = <<>>
    /\ faults = {}
    /\ nFaults = 0
    /\ ends = <<>>
    /\ startScraped = <<>>
    /\ startFile = <<>>
    /\ healthLog = <<>>
    /\ excs = <<>>
    /\ loopExcs = <<>>

\* What the checkpoint file records as scraped, per project.
RecordedScraped(f) == [p \in ProjectKeys |-> get_scraped_issues(load_state(f), p)]

\* main lines 33-35 on the first run: no state file yet.
ScrInit ==
    /\ run = 1
    /\ pc = "health"
    /\ server \in [ProjectKeys -> 0..MaxIssues]
    /\ pIdx = 0
    /\ start_at = 0
    /\ page = NoPage
    /\ iIdx = 0
    /\ scraped_issues = {}
    /\ scraped_count = 0
    /\ pending = NoItem
    /\ batch = <<>>
    /\ output = <<>>
    /\ emitted = <<>>
    /\ listCalls = <<>>
    /\ commentCalls = <<>>
    /\ faults = {}
    /\ nFaults = 0
    /\ ends = <<>>
    /\ startScraped = <<RecordedScraped(NoFile)>>
    /\ startFile = <<NoFile>>
    /\ healthLog = <<>>
    /\ excs = <<>>
    /\ loopExcs = <<>>
    /\ state = load_state(NoFile)
    /\ file = NoFile
    /\ smOps = <<>>
    /\ smBefore = EmptyState

histVars == <<emitted, listCalls, commentCalls, faults, nFaults, ends, startScraped,
              startFile, healthLog, excs, loopExcs>>
loopVars == <<pIdx, start_at, page, iIdx, scraped_issues, scraped_count, pending>>
smHist == <<smOps, smBefore>>
others == <<retryVars, rlVars, smHist, clientVars, mtVars>>

\* The pipeline is invoked again: main builds a new StateManager from the
\* state file and a new DataScraper (scraped_count = 0).
rerun ==
    /\ pc \in {"done", "exited"}
    /\ run < MaxRuns
    /\ run' = run + 1
    /\ pc' = "health"
    /\ state' = load_state(file)
    /\ startScraped' = Append(startScraped, RecordedScraped(file))
    /\ startFile' = Append(startFile, file)
    /\ scraped_count' = 0
    /\ batch' = <<>>
    /\ pIdx' = 0 /\ start_at' = 0 /\ page' = NoPage /\ iIdx' = 0
    /\ scraped_issues' = {} /\ pending' = NoItem
    /\ UNCHANGED <<server, file, output, emitted, listCalls, commentCalls, faults,
                   nFaults, ends, healthLog, excs, loopExcs>>
    /\ UNCHANGED others

\* The health check's failure ignored.
AfterHealthCheck_ignored(ok) == "project"

\* scrape_all_projects lines 232-234: if not self.client.test_connection():
\* return; else the loop over the projects starts.
AfterHealthCheck(ok) == IF ok THEN "project" ELSE "finish"

\* scrape_all_projects lines 232-234: the health check.
test_connection(ok) ==
    /\ pc = "health"
    /\ healthLog' = Append(healthLog, [run |-> run, ok |-> ok])
    /\ pc' = AfterHealthCheck(ok)
    /\ pIdx' = IF pc' = "project" THEN 1 ELSE 0
    /\ IF ok
       THEN UNCHANGED <<faults, nFaults>>
       ELSE /\ nFaults < MaxFaults
            /\ nFaults' = nFaults + 1
            /\ faults' = faults \cup {"health"}
    /\ UNCHANGED <<run, server, state, file, start_at, page, iIdx, scraped_issues,
                   scraped_count, pending, batch, output, emitted, listCalls,
                   commentCalls, ends, startScraped, startFile, excs, loopExcs>>
    /\ UNCHANGED others

\* scrape_project lines 41-54: skip a completed project, else record it as
\* current (saved), snapshot its scraped keys and start at offset 0.
scrape_project_begin ==
    /\ pc = "project"
    /\ pIdx <= Len(PROJECTS)
    /\ LET p == PROJECTS[pIdx] IN
       IF is_project_completed(state, p)
       THEN /\ pIdx' = pIdx + 1
            /\ UNCHANGED <<pc, state, file, scraped_issues, start_at>>
       ELSE /\ state' = set_current_project_mem(state, p)
            /\ file' \in SavedFiles(state')
            /\ scraped_issues' = get_scraped_issues(state', p)
            /\ start_at' = InitialStartAt(scraped_issues')
            /\ pc' = "list"
            /\ UNCHANGED pIdx
    /\ UNCHANGED <<run, server, page, iIdx, scraped_count, pending, batch, output>>
    /\ UNCHANGED histVars
    /\ UNCHANGED others

\* scrape_all_projects line 245: the project list is exhausted.
all_projects_done ==
    /\ pc = "project"
    /\ pIdx > Len(PROJECTS)
    /\ pc' = "finish"
    /\ UNCHANGED <<run, server, state, file, batch, output>>
    /\ UNCHANGED loopVars
    /\ UNCHANGED histVars
    /\ UNCHANGED others

\* scrape_project lines 58-78: fetch one page; an empty page ends the loop.
list_page(outcome) ==
    /\ pc = "list"
    /\ LET p == PROJECTS[pIdx]
           response == get_project_issues(p, start_at, ISSUES_PER_PAGE, outcome)
       IN /\ listCalls' = Append(listCalls, [run |-> run, p |-> p, startAt |-> start_at,
                                             outcome |-> outcome])
          /\ outcome /= "ok" => nFaults < MaxFaults
          /\ nFaults' = IF outcome = "ok" THEN nFaults ELSE nFaults + 1
          /\ faults' = IF outcome = "ok"
                       THEN faults
                       ELSE faults \cup {IF outcome = "failed" THEN "list" ELSE "startAt"}
          /\ page' = response
          /\ IF response.issues = <<>>
             THEN pc' = "complete" /\ iIdx' = 0
             ELSE pc' = "issue" /\ iIdx' = 1
    /\ UNCHANGED <<run, server, state, file, pIdx, start_at, scraped_issues,
                   scraped_count, pending, batch, output, emitted, commentCalls,
                   ends, startScraped, startFile, healthLog, excs, loopExcs>>
    /\ UNCHANGED others

\* scrape_project lines 81-101: one issue of the page: skip a known key, else
\* fetch its comments and build the enriched issue; when there is one, mark
\* the key scraped (saved) and go on to yield it, else log a warning and go
\* on to the next issue.
process_issue(outcome) ==
    /\ pc = "issue"
    /\ iIdx <= Len(page.issues)
    /\ LET p == PROJECTS[pIdx]
           k == page.issues[iIdx]
       IN IF AlreadyScraped(k, scraped_issues)
          THEN /\ outcome = "ok"
               /\ iIdx' = iIdx + 1
               /\ UNCHANGED <<pc, state, file, scraped_count, pending, commentCalls,
                              nFaults, faults>>
          ELSE /\ outcome /= "ok" => nFaults < MaxFaults
               /\ nFaults' = IF outcome = "ok" THEN nFaults ELSE nFaults + 1
               /\ commentCalls' = Append(commentCalls,
                                         [run |-> run, p |-> p, k |-> k,
                                          fetch |-> CommentFetch(outcome)])
               /\ LET full_issue == enrich_issue(p, k, outcome)
                  IN IF full_issue /= NoItem
                     THEN /\ pending' = full_issue
                          /\ state' = mark_issue_scraped_mem(state, p, k)
                          /\ IF mark_issue_scraped_saves(state, p, k)
                             THEN file' \in SavedFiles(state')
                             ELSE file' = file
                          /\ scraped_count' = scraped_count + 1
                          /\ pc' = "yield"
                          /\ UNCHANGED <<iIdx, faults>>
                     ELSE /\ iIdx' = iIdx + 1
                          /\ faults' = faults \cup {"enrich"}
                          /\ UNCHANGED <<pc, state, file, scraped_count, pending>>
    /\ UNCHANGED <<run, server, pIdx, start_at, page, scraped_issues, batch, output,
                   emitted, listCalls, ends, startScraped,
                   startFile, healthLog, excs, loopExcs>>
    /\ UNCHANGED others

\* scrape_project line 98 and main lines 56-71: the enriched issue is
\* yielded; main transforms it, appends it to the batch and writes the batch
\* out when it is full.
yield_issue ==
    /\ pc = "yield"
    /\ emitted' = Append(emitted, [run |-> run, p |-> pending.p, k |-> pending.k,
                                   comments |-> pending.comments, fetch |-> pending.fetch])
    /\ LET b == Append(batch, <<pending.p, pending.k>>)
       IN IF Len(b) >= BatchSize
          THEN output' = output \o b /\ batch' = <<>>
          ELSE output' = output /\ batch' = b
    /\ pending' = NoItem
    /\ iIdx' = iIdx + 1
    /\ pc' = "issue"
    /\ UNCHANGED <<run, server, state, file, pIdx, start_at, page, scraped_issues,
                   scraped_count, listCalls, commentCalls, faults, nFaults, ends,
                   startScraped, startFile, healthLog, excs, loopExcs>>
    /\ UNCHANGED others

\* main lines 98-106: writing the batch raises; the handler tries to write the
\* batch again, saves the state and exits with status 1.
main_failure(flushed) ==
    /\ pc = "yield"
    /\ Len(batch) + 1 >= BatchSize
    /\ nFaults < MaxFaults
    /\ nFaults' = nFaults + 1
    /\ emitted' = Append(emitted, [run |-> run, p |-> pending.p, k |-> pending.k,
                                   comments |-> pending.comments, fetch |-> pending.fetch])
    /\ LET b == Append(batch, <<pending.p, pending.k>>)
       IN IF flushed
          THEN output' = output \o b /\ file' \in SavedFiles(state)
          ELSE output' = output /\ file' = file
    /\ batch' = <<>>
    /\ pending' = NoItem
    /\ pc' = "exited"
    /\ ends' = Append(ends, [kind |-> "failure", at |-> pc])
    /\ UNCHANGED <<run, server, state, pIdx, start_at, page, iIdx, scraped_issues,
                   scraped_count, listCalls, commentCalls, faults, startScraped,
                   startFile, healthLog, excs, loopExcs>>
    /\ UNCHANGED others

\* scrape_project lines 104-117: after the page, advance the offset; stop
\* at the end of the listing or at the safety cap, else fetch the next page.
page_end ==
    /\ pc = "issue"
    /\ iIdx > Len(page.issues)
    /\ start_at' = NextStartAt(page)
    /\ IF start_at' >= page.total
       THEN pc' = "complete" /\ UNCHANGED faults
       ELSE IF scraped_count >= MAX_ISSUES_PER_PROJECT
            THEN pc' = "complete" /\ faults' = faults \cup {"cap"}
            ELSE pc' = "list" /\ UNCHANGED faults
    /\ UNCHANGED <<run, server, state, file, pIdx, page, iIdx, scraped_issues,
                   scraped_count, pending, batch, output, emitted, listCalls,
                   commentCalls, nFaults, ends, startScraped,
                   startFile, healthLog, excs, loopExcs>>
    /\ UNCHANGED others

\* scrape_project lines 119-125: an Exception is raised inside the try block
\* of the pagination loop; it is logged, the state is saved, the thread
\* sleeps 5 seconds and the loop starts its next iteration with start_at as
\* it is.  Two places raise on a listing response of the wrong shape:
\*   line 82, issue.get("key"), when the entry of the page is not an object,
\*     start_at still being the offset of the listing call;
\*   line 105, start_at >= total_issues, when "total" is null or not a
\*     number, after line 104 has advanced start_at past the page.
loop_exception(afterAdvance) ==
    /\ pc = "issue"
    /\ nFaults < MaxFaults
    /\ nFaults' = nFaults + 1
    /\ faults' = faults \cup {"loop"}
    /\ IF afterAdvance
       THEN iIdx > Len(page.issues) /\ start_at' = NextStartAt(page)
       ELSE iIdx <= Len(page.issues) /\ start_at' = start_at
    /\ loopExcs' = Append(loopExcs, [run |-> run, p |-> PROJECTS[pIdx],
                                     startAt |-> start_at,
                                     calls |-> Len(listCalls)])
    /\ file' \in SavedFiles(state)
    /\ pc' = "list"
    /\ UNCHANGED <<run, server, state, pIdx, page, iIdx, scraped_issues,
                   scraped_count, pending, batch, output, emitted, listCalls,
                   commentCalls, ends, startScraped, startFile, healthLog, excs>>
    /\ UNCHANGED others

\* scrape_project lines 127-132: the loop is left, the project is marked
\* completed (saved); scrape_all_projects goes on to the next project.
complete_project ==
    /\ pc = "complete"
    /\ state' = mark_project_completed_mem(state, PROJECTS[pIdx])
    /\ file' \in SavedFiles(state')
    /\ pIdx' = pIdx + 1
    /\ pc' = "project"
    /\ UNCHANGED <<run, server, start_at, page, iIdx, scraped_issues, scraped_count,
                   pending, batch, output>>
    /\ UNCHANGED histVars
    /\ UNCHANGED others

\* The handler giving up on the remaining projects.
AfterProjectException_abort(i) == [pc |-> "finish", pIdx |-> i]

\* scrape_all_projects lines 241-243: continue with the next project.
AfterProjectException(i) == [pc |-> "project", pIdx |-> i + 1]

\* scrape_all_projects lines 238-243: an Exception leaves scrape_project,
\* raised by the statements outside its pagination loop (lines 41-54 before
\* the loop, lines 127-131 after it); it is logged, the state is saved and
\* the loop goes on with the next project.
project_exception ==
    /\ pc \in {"project", "complete"}
    /\ pIdx <= Len(PROJECTS)
    /\ nFaults < MaxFaults
    /\ nFaults' = nFaults + 1
    /\ faults' = faults \cup {"project"}
    /\ excs' = Append(excs, [run |-> run, p |-> PROJECTS[pIdx], at |-> pc])
    /\ file' \in SavedFiles(state)
    /\ pc' = AfterProjectException(pIdx).pc
    /\ pIdx' = AfterProjectException(pIdx).pIdx
    /\ UNCHANGED <<run, server, state, start_at, page, iIdx, scraped_issues,
                   scraped_count, pending, batch, output, emitted, listCalls,
                   commentCalls, ends, startScraped, startFile, healthLog,
                   loopExcs>>
    /\ UNCHANGED others

\* main lines 73-87: the generator is exhausted; the remaining batch is
\* written and the run ends.
finish ==
    /\ pc = "finish"
    /\ output' = output \o batch
    /\ batch' = <<>>
    /\ pc' = "done"
    /\ ends' = Append(ends, [kind |-> "done", at |-> pc])
    /\ UNCHANGED <<run, server, state, file, emitted, listCalls, commentCalls,
                   faults, nFaults, startScraped,
                   startFile, healthLog, excs, loopExcs>>
    /\ UNCHANGED loopVars
    /\ UNCHANGED others

\* main lines 89-97: KeyboardInterrupt at any point of the run: the batch is
\* written, the state saved, the process exits.
interrupt ==
    /\ pc \in RunningPcs
    /\ output' = output \o batch
    /\ batch' = <<>>
    /\ file' \in SavedFiles(state)
    /\ pc' = "exited"
    /\ ends' = Append(ends, [kind |-> "interrupt", at |-> pc])
    /\ UNCHANGED <<run, server, state, emitted, listCalls, commentCalls, faults,
                   nFaults, startScraped,
                   startFile, healthLog, excs, loopExcs>>
    /\ UNCHANGED loopVars
    /\ UNCHANGED others

\* The next step of the run calls save_state.
AtSave ==
    \/ pc = "project" /\ pIdx <= Len(PROJECTS) /\ ~is_project_completed(state, PROJECTS[pIdx])
    \/ pc = "issue" /\ iIdx <= Len(page.issues) /\ ~AlreadyScraped(page.issues[iIdx], scraped_issues)
    \/ pc = "complete"

\* The process is killed: no handler runs.  When it dies inside save_state
\* (open(..., 'w') has truncated the file, json.dump has not finished) the
\* file is left unparseable.
crash(inSave) ==
    /\ pc \in RunningPcs
    /\ nFaults < MaxFaults
    /\ nFaults' = nFaults + 1
    /\ IF inSave
       THEN AtSave /\ file' = CorruptFile
       ELSE file' = file
    /\ pc' = "exited"
    /\ ends' = Append(ends, [kind |-> "crash", at |-> pc])
    /\ UNCHANGED <<run, server, state, batch, output, emitted, listCalls,
                   commentCalls, faults, startScraped,
                   startFile, healthLog, excs, loopExcs>>
    /\ UNCHANGED loopVars
    /\ UNCHANGED others

ScrNext ==
    \/ rerun
    \/ \E ok \in BOOLEAN : test_connection(ok)
    \/ scrape_project_begin
    \/ all_projects_done
    \/ \E o \in ListOutcomes : list_page(o)
    \/ \E o \in IssueOutcomes : process_issue(o)
    \/ yield_issue
    \/ \E flushed \in BOOLEAN : main_failure(flushed)
    \/ page_end
    \/ \E afterAdvance \in BOOLEAN : loop_exception(afterAdvance)
    \/ complete_project
    \/ project_exception
    \/ finish
    \/ interrupt
    \/ \E inSave \in BOOLEAN : crash(inSave)

(***************************************************************************)
(* Claims about the pipeline                                               *)
(***************************************************************************)

\* The keys yielded, and the keys whose comments were fetched, in run r.
EmittedIn(r) == {<<emitted[i].p, emitted[i].k>> : i \in {j \in DOMAIN emitted : emitted[j].run = r}}
FetchedIn(r) == {<<commentCalls[i].p, commentCalls[i].k>> :
                    i \in {j \in DOMAIN commentCalls : commentCalls[j].run = r}}

\* The keys the checkpoint recorded as scraped when run r loaded it.
RecordedAtStart(r) == {pk \in ProjectKeys \X IssueKeys : pk[2] \in startScraped[r][pk[1]]}

\* In run r, the first listing call of every project listed is at offset 0.
FirstListingsAtZero(r) ==
    \A i \in DOMAIN listCalls :
        (/\ listCalls[i].run = r
         /\ \A j \in 1..(i - 1) :
               ~(listCalls[j].run = r /\ listCalls[j].p = listCalls[i].p))
            => listCalls[i].startAt = 0

\* Every earlier run was interrupted between two pages, all keys of the
\* pages processed so far being persisted.
EarlierRunsInterruptedBetweenPages ==
    \A r \in 1..(run - 1) : ends[r].kind = "interrupt" /\ ends[r].at = "list"

\* The current run is a resumed run that has ended normally, against a
\* server that answered every health check and listing call, below the
\* safety cap.
ResumedRunDone ==
    /\ run >= 2
    /\ pc = "done"
    /\ EarlierRunsInterruptedBetweenPages
    /\ faults = {}

\* C1: a run resumed after interruptions between pages lists every project
\* from startAt = 0, fetches comments for and yields exactly the keys its
\* checkpoint did not record, ends with every project completed and
\* total_issues_scraped equal to the number of issues, and over all runs every
\* key is yielded exactly once.
C1_Resume ==
    ResumedRunDone
        => /\ FirstListingsAtZero(run)
           /\ \E i \in DOMAIN listCalls : listCalls[i].run = run
           /\ FetchedIn(run) = ServerKeys \ RecordedAtStart(run)
           /\ EmittedIn(run) = ServerKeys \ RecordedAtStart(run)
           /\ state.completed_projects = ProjectKeys
           /\ state.total_issues_scraped = Cardinality(ServerKeys)
           /\ load_state(file) = state
           /\ Len(emitted) = Cardinality(ServerKeys)
           /\ {<<emitted[i].p, emitted[i].k>> : i \in DOMAIN emitted} = ServerKeys

C1_Witness ==
    /\ ResumedRunDone
    /\ run = 2
    /\ server["A"] = 2
    /\ startScraped[2]["A"] = {1}
    /\ EmittedIn(1) = {<<"A", 1>>}
    /\ <<"A", 2>> \in EmittedIn(2)

\* C2: however the earlier runs ended, no run yields a key that the
\* checkpoint it started from records as scraped.
C2_NoReEmit ==
    \A i \in DOMAIN emitted :
        emitted[i].k \notin startScraped[emitted[i].run][emitted[i].p]

C2_Witness ==
    /\ run = 2
    /\ ends[1].kind = "failure"
    /\ \E i \in DOMAIN emitted :
          /\ emitted[i].run = 2
          /\ startScraped[2][emitted[i].p] /= {}

\* The comment calls of the current run that were answered 404.
NotFoundCalls == {i \in DOMAIN commentCalls :
                    commentCalls[i].run = run /\ commentCalls[i].fetch = "notfound"}

\* C11: an issue whose comment call is answered 404 is enriched with an empty
\* comment sequence, its key is in the project's scraped set, and unless the
\* process is stopped first it is yielded with the empty comment sequence,
\* after which the page goes on with its next issue (as long as the loop has
\* met no exception and no listing response lacked its offset in this run,
\* either of which makes the loop list issues a second time).
C11_NotFoundEmitsEmpty ==
    \A i \in NotFoundCalls :
        LET c == commentCalls[i]
            item == [p |-> c.p, k |-> c.k, comments |-> "empty", fetch |-> "notfound"]
        IN /\ c.k \in get_scraped_issues(state, c.p)
           /\ \/ pc = "yield" /\ pending = item
              \/ pc = "exited" /\ ends[run].at = "yield" /\ pending = item
              \/ \E j \in DOMAIN emitted :
                    /\ emitted[j] = [run |-> run, p |-> c.p, k |-> c.k,
                                     comments |-> "empty", fetch |-> "notfound"]
                    /\ (/\ pc = "issue"
                        /\ c.p = PROJECTS[pIdx]
                        /\ c.k \in Range(page.issues)
                        /\ \A e \in DOMAIN loopExcs : loopExcs[e].run /= run
                        /\ \A l \in DOMAIN listCalls :
                              listCalls[l].run = run => listCalls[l].outcome /= "noStartAt")
                          => \E n \in 1..(iIdx - 1) : page.issues[n] = c.k

\* A 404 on the first issue of a project was followed by the yield of that
\* issue and of the project's next issue.
C11_Witness ==
    \E j \in DOMAIN emitted :
        /\ j < Len(emitted)
        /\ emitted[j].run = run
        /\ emitted[j].fetch = "notfound"
        /\ emitted[j].k = 1
        /\ emitted[j + 1] = [run |-> run, p |-> emitted[j].p, k |-> 2,
                             comments |-> "comments", fetch |-> "ok"]

\* The comment calls of the current run that failed: _make_request raised
\* after its last retry.
FailedFetches == {i \in DOMAIN commentCalls :
                    commentCalls[i].run = run /\ commentCalls[i].fetch = "failed"}

\* C12: a key whose comment call exhausted its retries in the current run is
\* neither in the scraped set in memory nor in the one the state file
\* records, so that the next run fetches it again.
C12_FailedFetchNotMarked ==
    \A i \in FailedFetches :
        /\ commentCalls[i].k \notin get_scraped_issues(state, commentCalls[i].p)
        /\ commentCalls[i].k \notin RecordedScraped(file)[commentCalls[i].p]

\* The listing calls of the current run that failed (_make_request raised
\* after its last retry) while the server still had issues past the offset.
FailedListings == {i \in DOMAIN listCalls :
                     /\ listCalls[i].run = run
                     /\ listCalls[i].outcome = "failed"
                     /\ listCalls[i].startAt < server[listCalls[i].p]}

\* C13: a project one of whose listing calls exhausted its retries in the
\* current run while pages remained is not in completed_projects, in memory
\* or in the state file, so that a later run processes it again.
C13_FailedListingNotCompleted ==
    \A i \in FailedListings :
        /\ listCalls[i].p \notin state.completed_projects
        /\ listCalls[i].p \notin load_state(file).completed_projects

\* The keys the server listed for project p in run r.
ListedIn(r, p) ==
    UNION {Range(ServerPage(p, listCalls[i].startAt, ISSUES_PER_PAGE).issues) :
             i \in {j \in DOMAIN listCalls : /\ listCalls[j].run = r
                                              /\ listCalls[j].p = p
                                              /\ listCalls[j].outcome /= "failed"}}

\* The projects the current run has traversed.
TraversedNow == {listCalls[i].p : i \in {j \in DOMAIN listCalls : listCalls[j].run = run}}

\* C14: a project that the current run traversed and that is in
\* completed_projects has every key the server listed for it in that
\* traversal in its scraped set.
C14_CompletedImpliesListedScraped ==
    \A p \in TraversedNow \cap state.completed_projects :
        ListedIn(run, p) \subseteq get_scraped_issues(state, p)

\* The keys yielded so far, over all runs.
EmittedEver == {<<emitted[i].p, emitted[i].k>> : i \in DOMAIN emitted}

\* C15: a key is in the scraped set the state file records only once its
\* enriched issue has been yielded to the consumer.
C15_MarkAfterEmit ==
    \A pk \in ProjectKeys \X IssueKeys :
        pk[2] \in RecordedScraped(file)[pk[1]] => pk \in EmittedEver

\* The health checks, listing calls, comment calls and yields of run r.
HealthIn(r) == {i \in DOMAIN healthLog : healthLog[i].run = r}
ListingsIn(r) == {i \in DOMAIN listCalls : listCalls[i].run = r}
CommentsIn(r) == {i \in DOMAIN commentCalls : commentCalls[i].run = r}
YieldsIn(r) == {i \in DOMAIN emitted : emitted[i].run = r}

\* The health check of the current run has failed.
HealthFailedNow == \E i \in HealthIn(run) : ~healthLog[i].ok

\* C16: no run makes more than one health check; a run that has made a
\* listing or comment call has made exactly one health check before, and it
\* succeeded; after a failed health check the run goes to its end with no
\* listing or comment call, nothing yielded, the checkpoint in memory as it
\* was loaded and the state file as the run found it.
C16_HealthCheckGate ==
    /\ \A r \in 1..run :
          /\ Cardinality(HealthIn(r)) <= 1
          /\ (ListingsIn(r) \cup CommentsIn(r) /= {})
                => \E i \in HealthIn(r) : healthLog[i].ok
    /\ pc \in {"project", "list", "issue", "yield", "complete"}
          => \E i \in HealthIn(run) : healthLog[i].ok
    /\ HealthFailedNow
          => /\ ListingsIn(run) = {}
             /\ CommentsIn(run) = {}
             /\ YieldsIn(run) = {}
             /\ state = load_state(startFile[run])
             /\ pc \in {"finish", "done", "exited"}
             /\ pc /= "exited" => file = startFile[run]
             /\ pc = "done" => ends[run].kind = "done"

\* A second run found a checkpoint with scraped keys and a current project,
\* its health check failed and it has ended.
C16_Witness ==
    /\ run = 2
    /\ HealthFailedNow
    /\ pc = "done"
    /\ startFile[2].kind = "json"
    /\ state.current_project = "A"
    /\ get_scraped_issues(state, "A") /= {}

\* The projects the checkpoint of run r recorded as completed when the run
\* loaded it.
CompletedAtStart(r) == load_state(startFile[r]).completed_projects

\* The turn of a project that was completed when the run started, left
\* neither by the process being stopped nor by an exception.
SkipTurn ==
    /\ pc = "project"
    /\ pIdx <= Len(PROJECTS)
    /\ PROJECTS[pIdx] \in CompletedAtStart(run)
    /\ pc' /= "exited"
    /\ excs' = excs

\* C17: for a project that is in completed_projects when the run starts, the
\* run makes no listing and no comment call and yields nothing, never makes
\* it the current project, and its turn changes neither the checkpoint in
\* memory nor the state file: the turn only moves on to the next project.
C17_CompletedSkipped ==
    /\ [](\A p \in CompletedAtStart(run) :
            /\ \A i \in ListingsIn(run) : listCalls[i].p /= p
            /\ \A i \in CommentsIn(run) : commentCalls[i].p /= p
            /\ \A i \in YieldsIn(run) : emitted[i].p /= p
            /\ state.current_project = p
                  => load_state(startFile[run]).current_project = p)
    /\ [][SkipTurn => /\ state' = state
                      /\ file' = file
                      /\ pc' = "project"
                      /\ pIdx' = pIdx + 1
                      /\ UNCHANGED <<listCalls, commentCalls, emitted>>]_vars

\* The second run found A completed; it has skipped A, processed B and ended.
C17_Witness ==
    /\ run = 2
    /\ pc = "done"
    /\ "A" \in CompletedAtStart(2)
    /\ "B" \notin CompletedAtStart(2)
    /\ \E i \in ListingsIn(2) : listCalls[i].p = "B"
    /\ state.completed_projects = {"A", "B"}

\* C18: a StateManager constructed from a state file that is missing or
\* does not hold the expected document is constructed (the load does not
\* raise) and starts from the empty state.
C18_LoadNeverFails ==
    (/\ smOps /= <<>>
     /\ smOps[1].op \in {"reload", "reload_damaged", "reload_raised"}
     /\ file.kind /= "json")
        => /\ smOps[1].op /= "reload_raised"
           /\ state = EmptyState

\* The pagination of the current project has just been stopped by the safety
\* cap (lines 109-114): the loop was left after a page that was not empty
\* with issues remaining past the offset.
CapStopped ==
    /\ pc = "complete"
    /\ page.issues /= <<>>
    /\ start_at < page.total

\* C19: when the cap stops the pagination of a project, the number of issues
\* of that project processed in the current run (the keys listed for it,
\* skipped ones included) has reached MAX_ISSUES_PER_PROJECT.
C19_CapPerProject ==
    CapStopped => Cardinality(ListedIn(run, PROJECTS[pIdx])) >= MAX_ISSUES_PER_PROJECT

\* The exceptions scrape_all_projects caught in run r, and the position of a
\* project key in PROJECTS.
ExcsIn(r) == {i \in DOMAIN excs : excs[i].run = r}
ProjectIndex(p) == CHOOSE n \in DOMAIN PROJECTS : PROJECTS[n] = p

\* Project q had its turn in the current run: it was skipped as completed,
\* or listed, or its turn ended with an exception.
HadTurn(q) ==
    \/ q \in CompletedAtStart(run)
    \/ q \in TraversedNow
    \/ \E i \in ExcsIn(run) : excs[i].p = q

\* C20: when an exception leaves scrape_project, the state is saved and the
\* run goes on with the next project of the list; the listing calls of a run
\* follow the order of the list, and a run in which exceptions were caught
\* and that was not stopped ends after every project has had its turn.
C20_ProjectExceptionIsolated ==
    /\ [][Len(excs') > Len(excs)
            => /\ state' = state
               /\ file' \in SavedFiles(state)
               /\ pc' = "project"
               /\ pIdx' = pIdx + 1]_vars
    /\ [](\A i, j \in ListingsIn(run) :
            i < j => ProjectIndex(listCalls[i].p) <= ProjectIndex(listCalls[j].p))
    /\ []((ExcsIn(run) /= {} /\ pc \in {"finish", "done"})
            => \A q \in ProjectKeys : HadTurn(q))

\* The turn of A ended with an exception before its first listing call; B
\* was then traversed, its issues yielded, and the run has ended.
C20_Witness ==
    /\ pc = "done"
    /\ \E i \in ExcsIn(run) : excs[i].p = "A" /\ excs[i].at = "project"
    /\ "A" \notin TraversedNow
    /\ "B" \in TraversedNow
    /\ \E i \in YieldsIn(run) : emitted[i].p = "B"
    /\ state.completed_projects = {"B"}

\* The most recent exception caught inside a pagination loop, when it was
\* caught in the current run and no listing call has been made since.
AfterLoopException ==
    /\ loopExcs /= <<>>
    /\ loopExcs[Len(loopExcs)].run = run
    /\ loopExcs[Len(loopExcs)].calls = Len(listCalls)
    /\ pc = "list"

\* C21: after an exception caught inside the pagination loop the state file
\* holds the state, the project is still the current one and is not
\* completed, and the next listing call is about to use the startAt of the
\* listing call of the failed iteration.
C21_LoopExceptionRetriesSamePage ==
    AfterLoopException
        => LET e == loopExcs[Len(loopExcs)]
           IN /\ load_state(file) = state
              /\ PROJECTS[pIdx] = e.p
              /\ e.p \notin state.completed_projects
              /\ start_at = e.startAt

\* The page listing call i received.
PageOf(i) ==
    get_project_issues(listCalls[i].p, listCalls[i].startAt, ISSUES_PER_PAGE,
                       listCalls[i].outcome)

\* Listing call i + 1 is the next call of the same pagination loop as call i,
\* and no exception was caught inside a loop in that run.
NextOfSameLoop(i) ==
    /\ i + 1 \in DOMAIN listCalls
    /\ listCalls[i + 1].run = listCalls[i].run
    /\ listCalls[i + 1].p = listCalls[i].p
    /\ \A e \in DOMAIN loopExcs : loopExcs[e].run /= listCalls[i].run

\* C30: within one pagination loop each listing call after the first uses
\* the startAt of the call before it plus the number of issues that call
\* returned, which is at least one, and no call follows an empty page or a
\* page that reaches the total, whatever startAt the responses carry.
C30_PaginationProgress ==
    \A i \in DOMAIN listCalls :
        NextOfSameLoop(i)
            => /\ Len(PageOf(i).issues) > 0
               /\ listCalls[i + 1].startAt = listCalls[i].startAt + Len(PageOf(i).issues)
               /\ listCalls[i + 1].startAt < PageOf(i).total

\* The keys the in-memory state holds as scraped and the state file does not
\* record.
Unpersisted ==
    {pk \in ProjectKeys \X IssueKeys :
        /\ pk[2] \in get_scraped_issues(state, pk[1])
        /\ pk[2] \notin RecordedScraped(file)[pk[1]]}

\* C25: while a run is going the state file holds the in-memory state
\* (projects, scraped keys, completed projects, counter), every mark having
\* been followed by a save; and wherever the process stops, at most one
\* scraped key of the in-memory state is missing from the state file.
C25_SynchronousPersistence ==
    /\ pc \in RunningPcs => load_state(file) = state
    /\ Cardinality(Unpersisted) <= 1

\* C26: the state file is never left unparseable, and a run that follows a
\* run which found a saved state finds a saved state too.
C26_CrashSafeSave ==
    /\ file.kind /= "corrupt"
    /\ \A r \in 2..run : startFile[r - 1].kind = "json" => startFile[r].kind = "json"

\* Every run so far was either completed or stopped by an interrupt, the
\* current one by an interrupt, and nothing else went wrong.
InterruptedNow ==
    /\ pc = "exited"
    /\ ends[run].kind = "interrupt"
    /\ \A r \in 1..run : ends[r].kind \in {"interrupt", "done"}
    /\ nFaults = 0

\* C27: when a run has been stopped by an interrupt, the state file holds the
\* in-memory state, no yielded item is left in the batch, and every key the
\* state file records as scraped is in the output.
C27_InterruptFlushes ==
    InterruptedNow
        => /\ load_state(file) = state
           /\ batch = <<>>
           /\ \A pk \in ProjectKeys \X IssueKeys :
                 pk[2] \in RecordedScraped(file)[pk[1]] => pk \in Range(output)

(***************************************************************************)
(* JiraClient._make_request under @retry_with_backoff(max_retries=5,       *)
(* initial_delay=1.0, max_delay=60.0): one call, followed attempt by       *)
(* attempt (scraper/jira_client.py 52-107, utils/retry.py 52-81).          *)
(***************************************************************************)

\* The Retry-After header of a response: absent, or a number of seconds.
NoHeader == -1
RetryAfterHeaders == {NoHeader, 2}

\* A response of the server: its status code and its Retry-After header.
Resp(s, h) == [cls |-> "Response", status |-> s, retry_after |-> h]

NoResp == [cls |-> "none", status |-> 0, retry_after |-> NoHeader]

\* What session.get may produce: a response, or an exception of requests.
ClientResponses ==
    {Resp(s, NoHeader) : s \in {200, 403, 404, 503}}
    \cup {Resp(429, h) : h \in RetryAfterHeaders}
    \cup {Exc("ConnectionError", 0), Exc("ReadTimeout", 0)}

\* The sleep that ignores the header.
RetryAfterSleep_default(h) == 60

\* retry_after = int(response.headers.get('Retry-After', 60))
RetryAfterSleep(h) == IF h = NoHeader THEN 60 ELSE h

\* A 404 handled like every other HTTPError.
NotFoundIsEmpty_never(s) == FALSE

\* except HTTPError as e: if e.response.status_code == 404: return {}
NotFoundIsEmpty(s) == s = 404

NoResult == [kind |-> "none", value |-> "", exc |-> OK]

\* What an attempt of _make_request does with the last thing session.get
\* produced: raise_for_status and response.json(), or one of the except
\* branches, which all re-raise but for the 404.
AttemptOutcome(r) ==
    IF r.cls /= "Response"
    THEN [kind |-> "raise", value |-> "", exc |-> r]
    ELSE IF r.status < 400
    THEN [kind |-> "return", value |-> "json", exc |-> OK]
    ELSE IF NotFoundIsEmpty(r.status)
    THEN [kind |-> "return", value |-> "empty", exc |-> OK]
    ELSE [kind |-> "raise", value |-> "", exc |-> Exc("HTTPError", r.status)]

\* tenacity after an attempt: return the value, or retry after a backoff
\* while the exception is a RequestException and attempts remain, or re-raise.
EndAttempt(out) ==
    IF out.kind = "return"
    THEN cPc' = "returned" /\ cResult' = out /\ cNextSleep' = 0
    ELSE IF /\ RetryPredicate(out.exc)
            /\ ~StopAfterAttempt(cAttempt, ClientRetryConfig.max_retries + 1)
    THEN /\ cPc' = "backoff"
         /\ cNextSleep' = wait_exponential(cAttempt, ClientRetryConfig.initial_delay,
                                           ClientRetryConfig.max_delay,
                                           ClientRetryConfig.exponential_base)
         /\ cResult' = cResult
    ELSE cPc' = "raised" /\ cResult' = out /\ cNextSleep' = 0

ClientIdle ==
    /\ cPc = "off"
    /\ cAttempt = 0
    /\ cGets = 0
    /\ cWaits = 0
    /\ cResp = NoResp
    /\ cResp2 = NoResp
    /\ cSlept = <<>>
    /\ cNextSleep = 0
    /\ cResult = NoResult

ClientInit ==
    /\ cPc = "wait"
    /\ cAttempt = 1
    /\ cGets = 0
    /\ cWaits = 0
    /\ cResp = NoResp
    /\ cResp2 = NoResp
    /\ cSlept = <<>>
    /\ cNextSleep = 0
    /\ cResult = NoResult

\* self.rate_limiter.wait_if_needed(), first statement of every attempt.
client_wait_if_needed ==
    /\ cPc = "wait"
    /\ cWaits' = cWaits + 1
    /\ cPc' = "get"
    /\ UNCHANGED <<cAttempt, cGets, cResp, cResp2, cSlept, cNextSleep, cResult>>
    /\ UNCHANGED <<retryVars, rlVars, smVars, scrVars, mtVars>>

\* response = self.session.get(url, params=params, timeout=REQUEST_TIMEOUT)
client_get(r) ==
    /\ cPc = "get"
    /\ cGets' = cGets + 1
    /\ cResp' = r
    /\ IF r.cls = "Response" /\ r.status = 429
       THEN cPc' = "sleep429" /\ UNCHANGED <<cResult, cNextSleep>>
       ELSE EndAttempt(AttemptOutcome(r))
    /\ UNCHANGED <<cAttempt, cWaits, cResp2, cSlept>>
    /\ UNCHANGED <<retryVars, rlVars, smVars, scrVars, mtVars>>

\* if response.status_code == 429: ... time.sleep(retry_after)
client_sleep_retry_after ==
    /\ cPc = "sleep429"
    /\ cSlept' = Append(cSlept, RetryAfterSleep(cResp.retry_after))
    /\ cPc' = "get2"
    /\ UNCHANGED <<cAttempt, cGets, cWaits, cResp, cResp2, cNextSleep, cResult>>
    /\ UNCHANGED <<retryVars, rlVars, smVars, scrVars, mtVars>>

\* The request sent again after the sleep, in the same attempt.
client_get_again(r) ==
    /\ cPc = "get2"
    /\ cGets' = cGets + 1
    /\ cResp2' = r
    /\ EndAttempt(AttemptOutcome(r))
    /\ UNCHANGED <<cAttempt, cWaits, cResp, cSlept>>
    /\ UNCHANGED <<retryVars, rlVars, smVars, scrVars, mtVars>>

\* tenacity sleeps the backoff and starts the next attempt.
client_backoff ==
    /\ cPc = "backoff"
    /\ cAttempt' = cAttempt + 1
    /\ cResp' = NoResp
    /\ cResp2' = NoResp
    /\ cNextSleep' = 0
    /\ cPc' = "wait"
    /\ UNCHANGED <<cGets, cWaits, cSlept, cResult>>
    /\ UNCHANGED <<retryVars, rlVars, smVars, scrVars, mtVars>>

ClientNext ==
    \/ client_wait_if_needed
    \/ \E r \in ClientResponses : client_get(r)
    \/ client_sleep_retry_after
    \/ \E r \in ClientResponses : client_get_again(r)
    \/ client_backoff


(***************************************************************************)
(* StateManager.mark_issue_scraped called by two threads on one            *)
(* StateManager (utils/state_manager.py 98-108).  The class takes no lock, *)
(* so the threads interleave between its statements, and between the read  *)
(* and the write of the counter on line 107.                               *)
(***************************************************************************)

MarkThreads == 1..2

\* The project both threads mark issues of.
MarkProject == PROJECTS[1]

MarkIdle ==
    /\ mtPc = [t \in MarkThreads |-> "off"]
    /\ mtArg = [t \in MarkThreads |-> 0]
    /\ mtTmp = [t \in MarkThreads |-> 0]
    /\ mtBefore = EmptyState

\* Both threads are about to call mark_issue_scraped(MarkProject, mtArg[t]) on
\* a StateManager that is new or has marked the first issue already.
MarkInit ==
    /\ state \in {EmptyState, mark_issue_scraped_mem(EmptyState, MarkProject, 1)}
    /\ file = IF state = EmptyState THEN NoFile ELSE JsonDoc(state, <<>>)
    /\ smOps = <<>>
    /\ smBefore = EmptyState
    /\ mtPc = [t \in MarkThreads |-> "l102"]
    /\ mtArg \in [MarkThreads -> StoreKeys]
    /\ mtTmp = [t \in MarkThreads |-> 0]
    /\ mtBefore = state

\* if project not in self.state["projects"]:
mark_l102(t) ==
    /\ mtPc[t] = "l102"
    /\ mtPc' = [mtPc EXCEPT ![t] = IF MarkProject \notin DOMAIN state.projects
                                   THEN "l103" ELSE "l105"]
    /\ UNCHANGED <<state, file, smOps, smBefore, mtArg, mtTmp, mtBefore>>
    /\ UNCHANGED <<retryVars, rlVars, scrVars, clientVars>>

\* self.state["projects"][project] = {"scraped_issues": []}
mark_l103(t) ==
    /\ mtPc[t] = "l103"
    /\ state' = [state EXCEPT !.projects = DictPut(state.projects, MarkProject, <<>>)]
    /\ mtPc' = [mtPc EXCEPT ![t] = "l105"]
    /\ UNCHANGED <<file, smOps, smBefore, mtArg, mtTmp, mtBefore>>
    /\ UNCHANGED <<retryVars, rlVars, scrVars, clientVars>>

\* if issue_key not in self.state["projects"][project]["scraped_issues"]:
mark_l105(t) ==
    /\ mtPc[t] = "l105"
    /\ mtPc' = [mtPc EXCEPT ![t] = IF mtArg[t] \notin Range(state.projects[MarkProject])
                                   THEN "l106" ELSE "done"]
    /\ UNCHANGED <<state, file, smOps, smBefore, mtArg, mtTmp, mtBefore>>
    /\ UNCHANGED <<retryVars, rlVars, scrVars, clientVars>>

\* self.state["projects"][project]["scraped_issues"].append(issue_key)
mark_l106(t) ==
    /\ mtPc[t] = "l106"
    /\ state' = [state EXCEPT !.projects =
                    DictPut(state.projects, MarkProject,
                            Append(state.projects[MarkProject], mtArg[t]))]
    /\ mtPc' = [mtPc EXCEPT ![t] = "l107r"]
    /\ UNCHANGED <<file, smOps, smBefore, mtArg, mtTmp, mtBefore>>
    /\ UNCHANGED <<retryVars, rlVars, scrVars, clientVars>>

\* Line 107, right-hand side: self.state.get("total_issues_scraped", 0) + 1
mark_l107_read(t) ==
    /\ mtPc[t] = "l107r"
    /\ mtTmp' = [mtTmp EXCEPT ![t] = state.total_issues_scraped + 1]
    /\ mtPc' = [mtPc EXCEPT ![t] = "l107w"]
    /\ UNCHANGED <<state, file, smOps, smBefore, mtArg, mtBefore>>
    /\ UNCHANGED <<retryVars, rlVars, scrVars, clientVars>>

\* Line 107, the store: self.state["total_issues_scraped"] = ...
mark_l107_write(t) ==
    /\ mtPc[t] = "l107w"
    /\ state' = [state EXCEPT !.total_issues_scraped = mtTmp[t]]
    /\ mtPc' = [mtPc EXCEPT ![t] = "l108"]
    /\ UNCHANGED <<file, smOps, smBefore, mtArg, mtTmp, mtBefore>>
    /\ UNCHANGED <<retryVars, rlVars, scrVars, clientVars>>

\* self.save_state()
mark_l108(t) ==
    /\ mtPc[t] = "l108"
    /\ file' \in SavedFiles(state)
    /\ mtPc' = [mtPc EXCEPT ![t] = "done"]
    /\ UNCHANGED <<state, smOps, smBefore, mtArg, mtTmp, mtBefore>>
    /\ UNCHANGED <<retryVars, rlVars, scrVars, clientVars>>

MarkNext ==
    \/ \E t \in MarkThreads : mark_l102(t)
    \/ \E t \in MarkThreads : mark_l103(t)
    \/ \E t \in MarkThreads : mark_l105(t)
    \/ \E t \in MarkThreads : mark_l106(t)
    \/ \E t \in MarkThreads : mark_l107_read(t)
    \/ \E t \in MarkThreads : mark_l107_write(t)
    \/ \E t \in MarkThreads : mark_l108(t)

\* C22: every HTTP GET, the one sent after a 429 included, has its own
\* wait_if_needed call before it: never more GETs sent than limiter calls made.
C22_EveryGetRateLimited == cGets <= cWaits

\* C23: after a 429 carrying Retry-After d the client sleeps d and sends one
\* extra request, without a limiter call, in the same attempt; nothing more is
\* sent in that attempt, and when the extra request fails the failure is the
\* failure of that attempt: a backoff follows while attempts remain and the
\* exception is re-raised on attempt max_retries + 1, which is never exceeded.
ExtraFailed == cResp2 /= NoResp /\ AttemptOutcome(cResp2).kind = "raise"

C23_RetryAfterHandling ==
    /\ cPc = "get2" =>
          /\ cResp.cls = "Response" /\ cResp.status = 429
          /\ cResp2 = NoResp
          /\ cResp.retry_after /= NoHeader => cSlept[Len(cSlept)] = cResp.retry_after
    /\ cResp2 /= NoResp =>
          /\ cResp.cls = "Response" /\ cResp.status = 429
          /\ cPc \in {"returned", "backoff", "raised"}
    /\ cPc \in {"backoff", "returned", "raised"} => cGets = cAttempt + Len(cSlept)
    /\ ExtraFailed =>
          \/ cPc = "backoff" /\ cAttempt <= ClientRetryConfig.max_retries
          \/ cPc = "raised" /\ cAttempt = ClientRetryConfig.max_retries + 1
                            /\ cResult = AttemptOutcome(cResp2)
    /\ cAttempt <= ClientRetryConfig.max_retries + 1

\* The last attempt allowed got a 429 with a Retry-After, and the extra
\* request failed as well.
C23_Witness ==
    /\ cPc = "raised"
    /\ cAttempt = ClientRetryConfig.max_retries + 1
    /\ cResp.status = 429
    /\ cResp.retry_after /= NoHeader
    /\ ExtraFailed
    /\ cSlept[Len(cSlept)] = cResp.retry_after

\* C24: a 404 response ends the call at once with the empty result: no backoff
\* and no further request follow it, and a 404 to the first request of the call
\* leaves exactly one GET sent.
IsNotFound(r) == r.cls = "Response" /\ r.status = 404

C24_NotFoundReturnsEmptyOnce ==
    /\ IsNotFound(cResp) \/ IsNotFound(cResp2) =>
          /\ cPc = "returned"
          /\ cResult.kind = "return" /\ cResult.value = "empty"
    /\ IsNotFound(cResp) => cResp2 = NoResp
    /\ IsNotFound(cResp) /\ cAttempt = 1 => cGets = 1 /\ cWaits = 1

\* The first request of the call was answered 404.
C24_Witness ==
    /\ IsNotFound(cResp)
    /\ cAttempt = 1
    /\ cGets = 1
    /\ cPc = "returned"
    /\ cResult.value = "empty"

\* C29: once both threads have returned from mark_issue_scraped, every key
\* they marked is in the project's list exactly once, and the counter has
\* grown by the number of distinct keys that were new.
MarkedKeys == {mtArg[t] : t \in MarkThreads}

C29_ConcurrentMarksExact ==
    (\A t \in MarkThreads : mtPc[t] = "done") =>
        /\ MarkProject \in DOMAIN state.projects
        /\ \A k \in MarkedKeys : Occurrences(state.projects[MarkProject], k) = 1
        /\ state.total_issues_scraped =
              mtBefore.total_issues_scraped
              + Cardinality(MarkedKeys \ get_scraped_issues(mtBefore, MarkProject))

\* C32: a key enriched and marked earlier in a run is skipped when the server
\* lists it again in that run, so that no key is yielded twice in one run.
C32_OncePerRun ==
    \A i, j \in DOMAIN emitted :
        (/\ i < j
         /\ emitted[i].run = emitted[j].run
         /\ emitted[i].p = emitted[j].p) => emitted[i].k /= emitted[j].k

(***************************************************************************)
(* scrape_project against a server that never ends the listing: every      *)
(* listing call is answered with a page that is not empty and a total      *)
(* beyond the offset (scraper/data_scraper.py 47-131).                     *)
(***************************************************************************)

\* Listing calls followed in one run of the loop.
MaxListCalls == 6

\* The pages such a server may answer with: ISSUES_PER_PAGE keys, whichever.
MisbehavingPages == [1..ISSUES_PER_PAGE -> IssueKeys]

\* Its response to a listing call at offset startAt.
MisbehavingResponse(startAt, keys) ==
    [issues |-> keys, total |-> startAt + Len(keys) + 1, startAt |-> startAt]

\* The checkpoint a run finds: the first n issues of the project are scraped.
ResumedState(p, n) ==
    [EmptyState EXCEPT !.projects = IF n = 0 THEN EmptyDict
                                    ELSE DictPut(EmptyDict, p, [i \in 1..n |-> i]),
                       !.total_issues_scraped = n]

\* scrape_project has run lines 41-54 for the first project, in a first run
\* (n = 0) or in a resumed one.
MisbehavingInit ==
    /\ run = 1
    /\ pc = "list"
    /\ server = [p \in ProjectKeys |-> 0]
    /\ pIdx = 1
    /\ \E n \in 0..MaxIssues :
          /\ state = set_current_project_mem(ResumedState(PROJECTS[1], n), PROJECTS[1])
          /\ file = JsonDoc(state, <<>>)
          /\ startScraped = <<RecordedScraped(JsonDoc(ResumedState(PROJECTS[1], n), <<>>))>>
          /\ startFile = <<IF n = 0 THEN NoFile
                           ELSE JsonDoc(ResumedState(PROJECTS[1], n), <<>>)>>
    /\ scraped_issues = get_scraped_issues(state, PROJECTS[1])
    /\ start_at = InitialStartAt(scraped_issues)
    /\ page = NoPage
    /\ iIdx = 0
    /\ scraped_count = 0
    /\ pending = NoItem
    /\ batch = <<>>
    /\ output = <<>>
    /\ emitted = <<>>
    /\ listCalls = <<>>
    /\ commentCalls = <<>>
    /\ faults = {}
    /\ nFaults = 0
    /\ ends = <<>>
    /\ healthLog = <<>>
    /\ excs = <<>>
    /\ loopExcs = <<>>
    /\ smOps = <<>>
    /\ smBefore = EmptyState

\* scrape_project lines 58-78 against that server.
list_page_misbehaving(keys) ==
    /\ pc = "list"
    /\ Cardinality(ListingsIn(run)) < MaxListCalls
    /\ listCalls' = Append(listCalls, [run |-> run, p |-> PROJECTS[pIdx],
                                       startAt |-> start_at, outcome |-> "ok"])
    /\ page' = MisbehavingResponse(start_at, keys)
    /\ pc' = "issue"
    /\ iIdx' = 1
    /\ UNCHANGED <<run, server, state, file, pIdx, start_at, scraped_issues,
                   scraped_count, pending, batch, output, emitted, commentCalls,
                   faults, nFaults, ends, startScraped, startFile, healthLog, excs,
                   loopExcs>>
    /\ UNCHANGED others

MisbehavingNext ==
    \/ \E keys \in MisbehavingPages : list_page_misbehaving(keys)
    \/ \E outcome \in IssueOutcomes : process_issue(outcome)
    \/ yield_issue
    \/ page_end
    \/ complete_project

\* C31: against a server whose every page is non-empty with a total beyond
\* the offset, the listing calls of the project in the run stay bounded
\* through the safety cap: at most MAX_ISSUES_PER_PROJECT of them, and one
\* more for each issue whose enrichment failed; also in a resumed run.
C31_ListingCallsBounded ==
    Cardinality(ListingsIn(run)) <= MAX_ISSUES_PER_PROJECT + nFaults

RetryNext == wrapper \/ backoff_sleep

InitRetry == RetryInit /\ RLIdle /\ SMIdle /\ ScrIdle /\ ClientIdle /\ MarkIdle

SpecRetry == InitRetry /\ [][RetryNext]_vars

InitRL == RLInit /\ RetryIdle /\ SMIdle /\ ScrIdle /\ ClientIdle /\ MarkIdle

SpecRL == InitRL /\ [][RLNext]_vars

SpecRLFair == InitRL /\ [][RLNext]_vars /\ RLFairness

InitSM == SMInit /\ RetryIdle /\ RLIdle /\ ScrIdle /\ ClientIdle /\ MarkIdle

SpecSM == InitSM /\ [][SMNext]_vars

Init == ScrInit /\ RetryIdle /\ RLIdle /\ ClientIdle /\ MarkIdle

Next == ScrNext

InitClient == ClientInit /\ RetryIdle /\ RLIdle /\ SMIdle /\ ScrIdle /\ MarkIdle

SpecClient == InitClient /\ [][ClientNext]_vars

InitMark == MarkInit /\ RetryIdle /\ RLIdle /\ ScrIdle /\ ClientIdle

SpecMark == InitMark /\ [][MarkNext]_vars

InitMisbehaving == MisbehavingInit /\ RetryIdle /\ RLIdle /\ ClientIdle /\ MarkIdle

SpecMisbehaving == InitMisbehaving /\ [][MisbehavingNext]_vars

Spec == Init /\ [][Next]_vars

====
